---- MODULE Spec2Model ----
(***************************************************************************)
(* Topic hierarchy builder of database/topicmap_bertopic.py:               *)
(* the identifier normalizer _to_int and build_topic_tree, which turns     *)
(* per-document cluster assignments, summary rows and a pairwise merge     *)
(* table into a forest of topic nodes plus a diagnostics record.           *)
(*                                                                         *)
(* Conventions of the model                                                *)
(*   - a text is a sequence of one-character strings; the word "Topic" of  *)
(*     the generic placeholder label is kept as one element;               *)
(*   - a float is an exact rational num/den; a score is an integer number  *)
(*     of 1/1024ths, which float arithmetic adds and multiplies exactly;   *)
(*     a distance is an integer number of tenths;                          *)
(*   - Optional[int] is <<>> (None) or <<n>>;                              *)
(*   - a dict is a function whose DOMAIN is its key set, plus, where the    *)
(*     code iterates it, a sequence giving the insertion order.            *)
(***************************************************************************)
EXTENDS Integers, Sequences, FiniteSets, TLC

VARIABLES
    arg, ret,                   \* _to_int harness: the scalar given, the outcome
    pc,                         \* position inside build_topic_tree
    top_terms, hierarchy_conf,  \* configuration as given
    doc_lookup, topic_assignments, topic_info, hierarchy_df, topic_model,
    top_count, max_distance,
    doc_members, size_by_topic, label_by_topic,
    nodes, node_order,
    row_idx, parent_children, parent_order, parent_labels, children_seen,
    roots, root_idx, visited, stack, expansions,
    ordered_nodes, stats,
    kw_text, top_k,             \* extract_keywords: the note and the number of keywords asked
    kw_tokens, uni_scores, bi_scores, merged, merged_idx, seen_keys, out

inputs == <<top_terms, hierarchy_conf, doc_lookup, topic_assignments, topic_info,
            hierarchy_df, topic_model>>
harness == <<arg, ret>>
config == <<top_count, max_distance>>
members == <<doc_members, size_by_topic, label_by_topic>>
merge == <<row_idx, parent_children, parent_order, parent_labels, children_seen>>
walkst == <<roots, root_idx, visited, stack, expansions>>
output == <<ordered_nodes, stats>>
kw == <<kw_text, top_k, kw_tokens, uni_scores, bi_scores, merged, merged_idx, seen_keys, out>>
vars == <<harness, kw, pc, inputs, config, members, nodes, node_order, merge, walkst, output>>

\* extract_keywords has not been called
KwIdle ==
    /\ kw_text = <<>> /\ top_k = 0 /\ kw_tokens = <<>> /\ uni_scores = <<>> /\ bi_scores = <<>>
    /\ merged = <<>> /\ merged_idx = 1 /\ seen_keys = {} /\ out = <<>>

(***************************************************************************)
(* Bounds of the model.                                                    *)
(***************************************************************************)
MaxTextLen == 3      \* longest text handed to _to_int on its own
MaxDocs == 2         \* longest assignment sequence that is enumerated
MaxRows == 2         \* most rows of an enumerated merge table
MaxInfo == 1         \* most rows of an enumerated summary table
MaxTerms == 2        \* longest enumerated term-weight list
MaxNum == 5          \* largest magnitude of a number handed to _to_int on its own

(***************************************************************************)
(* Generic helpers.                                                        *)
(***************************************************************************)
None == <<>>
Some(n) == <<n>>

Max2(a, b) == IF a >= b THEN a ELSE b

Range(s) == {s[i] : i \in 1..Len(s)}

SeqsUpTo(S, n) == UNION {[1..k -> S] : k \in 0..n}

\* the elements of a finite set of integers in ascending order: sorted(S)
RECURSIVE SortedSeq(_)
SortedSeq(S) ==
    IF S = {} THEN <<>>
    ELSE LET m == CHOOSE x \in S : \A y \in S : x <= y
         IN <<m>> \o SortedSeq(S \ {m})

(***************************************************************************)
(* Texts.                                                                  *)
(***************************************************************************)
Digits == {"0", "1", "2", "3", "4", "5", "6", "7", "8", "9"}

DigitVal(c) ==
    CASE c = "0" -> 0 [] c = "1" -> 1 [] c = "2" -> 2 [] c = "3" -> 3
      [] c = "4" -> 4 [] c = "5" -> 5 [] c = "6" -> 6 [] c = "7" -> 7
      [] c = "8" -> 8 [] c = "9" -> 9

DigitChar(d) == <<"0", "1", "2", "3", "4", "5", "6", "7", "8", "9">>[d + 1]

IsSpace(c) == c = " "

\* str.strip(): leading and trailing whitespace removed
RECURSIVE LStrip(_)
LStrip(s) == IF s # <<>> /\ IsSpace(Head(s)) THEN LStrip(Tail(s)) ELSE s

RECURSIVE RStrip(_)
RStrip(s) ==
    IF s # <<>> /\ IsSpace(s[Len(s)]) THEN RStrip(SubSeq(s, 1, Len(s) - 1)) ELSE s

Strip(s) == RStrip(LStrip(s))

\* int() of a run of decimal digits
RECURSIVE DigitsValue(_)
DigitsValue(ds) ==
    IF ds = <<>> THEN 0
    ELSE 10 * DigitsValue(SubSeq(ds, 1, Len(ds) - 1)) + DigitVal(ds[Len(ds)])

\* str() of a natural number, and of an integer
RECURSIVE NatText(_)
NatText(n) == IF n < 10 THEN <<DigitChar(n)>> ELSE NatText(n \div 10) \o <<DigitChar(n % 10)>>

IntText(n) == IF n < 0 THEN <<"-">> \o NatText(0 - n) ELSE NatText(n)

\* the end of the maximal run of digits of s that starts at position i
RECURSIVE DigitRunEnd(_, _)
DigitRunEnd(s, i) ==
    IF i < Len(s) /\ s[i + 1] \in Digits THEN DigitRunEnd(s, i + 1) ELSE i

\* the start of the maximal run of digits of s that ends at position j
RECURSIVE DigitRunStart(_, _)
DigitRunStart(s, j) ==
    IF j > 1 /\ s[j - 1] \in Digits THEN DigitRunStart(s, j - 1) ELSE j

\* int(m.group(1)) for a match of -?\d+ covering positions from..to of s
MatchValue(s, from, to) ==
    IF s[from] = "-" THEN 0 - DigitsValue(SubSeq(s, from + 1, to))
    ELSE DigitsValue(SubSeq(s, from, to))

(***************************************************************************)
(* Scalars crossing the input boundary, and _to_int.                       *)
(***************************************************************************)
NoneV == [k |-> "none", num |-> 0, den |-> 1, s |-> <<>>]
IntV(n) == [k |-> "int", num |-> n, den |-> 1, s |-> <<>>]
FloatV(n, d) == [k |-> "float", num |-> n, den |-> d, s |-> <<>>]
NanV == [k |-> "nan", num |-> 0, den |-> 1, s |-> <<>>]
InfV(sign) == [k |-> "inf", num |-> sign, den |-> 1, s |-> <<>>]
TextV(t) == [k |-> "text", num |-> 0, den |-> 1, s |-> t]

R_Int(n) == [kind |-> "int", v |-> n]
R_None == [kind |-> "none", v |-> 0]
R_Raise == [kind |-> "raise", v |-> 0]

\* int(val) of a finite float: truncation toward zero
TruncFloat(num, den) == IF num >= 0 THEN num \div den ELSE 0 - ((0 - num) \div den)

\* re.search(r"(-?\d+)$", s.strip()): the trailing run of digits with its sign
TrailingInt(s) ==
    LET t == Strip(s)
        n == Len(t)
    IN IF n = 0 \/ t[n] \notin Digits THEN R_None
       ELSE LET j == DigitRunStart(t, n)
                from == IF j > 1 /\ t[j - 1] = "-" THEN j - 1 ELSE j
            IN R_Int(MatchValue(t, from, n))

\* re.search(r"(-?\d+)", s): the leftmost run of digits with its sign
EmbeddedInt(s) ==
    LET starts == {i \in 1..Len(s) :
                      \/ s[i] \in Digits
                      \/ s[i] = "-" /\ i < Len(s) /\ s[i + 1] \in Digits}
    IN IF starts = {} THEN R_None
       ELSE LET i == CHOOSE x \in starts : \A y \in starts : x <= y
                first == IF s[i] = "-" THEN i + 1 ELSE i
            IN R_Int(MatchValue(s, i, DigitRunEnd(s, first)))

ToIntText(s) ==
    IF TrailingInt(s).kind = "int" THEN TrailingInt(s)
    ELSE IF EmbeddedInt(s).kind = "int" THEN EmbeddedInt(s)
    ELSE R_None    \* int(val) of a text without a digit raises ValueError, caught

_to_int(val) ==
    CASE val.k = "none" -> R_None
      [] val.k = "int" -> R_Int(val.num)
      [] val.k = "nan" -> R_None
      [] val.k = "float" -> R_Int(TruncFloat(val.num, val.den))
      [] val.k = "inf" -> R_Raise     \* int(inf): OverflowError, not caught
      [] val.k = "text" -> ToIntText(val.s)

\* int(x) as Python's constructor does it: a text must be an optionally signed
\* run of digits once stripped; None, nan, inf and any other text raise
PyInt(val) ==
    CASE val.k = "int" -> R_Int(val.num)
      [] val.k = "float" -> R_Int(TruncFloat(val.num, val.den))
      [] val.k = "text" ->
            LET t == Strip(val.s)
                body == IF t # <<>> /\ t[1] = "-" THEN Tail(t) ELSE t
            IN IF body # <<>> /\ \A i \in 1..Len(body) : body[i] \in Digits
               THEN R_Int(MatchValue(t, 1, Len(t)))
               ELSE R_Raise
      [] OTHER -> R_Raise

\* float(x), in tenths, for the numbers and texts the model hands it (a float
\* num/den has den in {1, 2, 5, 10}); <<>> when float() raises
PyFloatTenths(val) ==
    CASE val.k = "int" -> Some(10 * val.num)
      [] val.k = "float" -> Some((10 * val.num) \div val.den)
      [] val.k = "text" -> IF PyInt(val).kind = "int" THEN Some(10 * PyInt(val).v) ELSE None
      [] OTHER -> None

\* val not in (None, '')
NotNoneOrEmpty(val) == ~(val.k = "none" \/ (val.k = "text" /\ val.s = <<>>))

(***************************************************************************)
(* build_topic_tree: configuration (lines 400-414).                        *)
(***************************************************************************)
DefaultTopN == 10
OutlierTopic == 0 - 1

TopCount(raw) ==
    LET r == PyInt(raw)
    IN IF r.kind = "int" /\ r.v > 0 THEN r.v ELSE DefaultTopN

\* hierarchy_conf is <<>> (None or an empty dict) or <<raw_max_dist>>
MaxDistance(conf) ==
    IF conf = <<>> THEN None
    ELSE IF NotNoneOrEmpty(conf[1]) THEN PyFloatTenths(conf[1]) ELSE None

(***************************************************************************)
(* Membership (lines 416-442). probabilities is None in every build of     *)
(* the model, so each weight is None and a member is its note id.          *)
(***************************************************************************)
\* list.sort(key=id): ascending, equal ids kept (insertion sort)
RECURSIVE InsertSorted(_, _)
InsertSorted(s, x) ==
    IF s = <<>> THEN <<x>>
    ELSE IF x < Head(s) THEN <<x>> \o s
    ELSE <<Head(s)>> \o InsertSorted(Tail(s), x)

RECURSIVE SortIds(_)
SortIds(s) == IF s = <<>> THEN <<>> ELSE InsertSorted(SortIds(SubSeq(s, 1, Len(s) - 1)), s[Len(s)])

\* the assignment at position idx is appended to a cluster's member list
Assigned(topics, docs, idx) ==
    /\ _to_int(topics[idx]).kind = "int"
    /\ _to_int(topics[idx]).v # OutlierTopic
    /\ idx <= Len(docs)

\* doc_members[t] before the sort: the note ids of the positions assigned to t
MembersOf(topics, docs, t) ==
    LET pos == SelectSeq([i \in 1..Len(topics) |-> i],
                         LAMBDA i : Assigned(topics, docs, i) /\ _to_int(topics[i]).v = t)
    IN [j \in 1..Len(pos) |-> docs[pos[j]]]

MemberEntries(topics, docs, t) == SortIds(MembersOf(topics, docs, t))

DocMembers(topics, docs) ==
    LET keys == {_to_int(topics[i]).v : i \in {j \in 1..Len(topics) : Assigned(topics, docs, j)}}
    IN [t \in keys |-> MemberEntries(topics, docs, t)]

\* len(doc_members.get(topic_id, []))
MemberCount(dm, t) == IF t \in DOMAIN dm THEN Len(dm[t]) ELSE 0

(***************************************************************************)
(* Summary rows (lines 444-468). A row is [Topic, Count, Name]; the        *)
(* Probability column is absent in every build of the model.               *)
(***************************************************************************)
RowUsable(row) == _to_int(row.Topic).kind = "int" /\ _to_int(row.Topic).v # OutlierTopic

\* size_by_topic after the rows info[1..n]
RECURSIVE SizeByTopic(_, _, _)
SizeByTopic(info, dm, n) ==
    IF n = 0 THEN <<>>
    ELSE LET prev == SizeByTopic(info, dm, n - 1)
             row == info[n]
             t == _to_int(row.Topic).v
             c == _to_int(row.Count)
         IN IF RowUsable(row) /\ c.kind = "int"
            THEN (t :> Max2(c.v, MemberCount(dm, t))) @@ prev
            ELSE prev

\* label_by_topic after the rows info[1..n]
RECURSIVE LabelByTopic(_, _)
LabelByTopic(info, n) ==
    IF n = 0 THEN <<>>
    ELSE LET prev == LabelByTopic(info, n - 1)
             row == info[n]
             t == _to_int(row.Topic).v
         IN IF RowUsable(row) /\ Strip(row.Name) # <<>>
            THEN (t :> Strip(row.Name)) @@ prev
            ELSE prev

(***************************************************************************)
(* Leaf nodes (lines 470-521).                                             *)
(***************************************************************************)
IsSeparator(c) == c = "_" \/ IsSpace(c)

\* f'Topic {topic_id}'
GenericLabel(topic_id) == <<"Topic", " ">> \o IntText(topic_id)

\* [token for token in re.split(r"[_\s]+", label) if token]
RECURSIVE SplitTokens(_, _, _)
SplitTokens(label, i, cur) ==
    IF i > Len(label) THEN (IF cur = <<>> THEN <<>> ELSE <<cur>>)
    ELSE IF IsSeparator(label[i])
         THEN (IF cur = <<>> THEN <<>> ELSE <<cur>>) \o SplitTokens(label, i + 1, <<>>)
         ELSE SplitTokens(label, i + 1, Append(cur, label[i]))

FallbackTokens(label) == SplitTokens(label, 1, <<>>)

Term(text, score, rank) == [term |-> text, score |-> score, rank |-> rank]

\* the loop of lines 495-506 over an upstream list of entries
\* [wf: a list or tuple of two or more items, term, score: <<>> unless float() parses it]
RECURSIVE ScanTerms(_, _, _, _)
ScanTerms(entries, i, acc, topn) ==
    IF i > Len(entries) THEN acc
    ELSE LET e == entries[i]
         IN IF e.wf /\ Strip(e.term) = <<>> THEN ScanTerms(entries, i + 1, acc, topn)
            ELSE LET next == IF e.wf
                             THEN Append(acc, Term(Strip(e.term),
                                                   IF e.score = None THEN 0 ELSE e.score[1],
                                                   i))
                             ELSE acc
                 IN IF Len(next) >= topn THEN next
                    ELSE ScanTerms(entries, i + 1, next, topn)

\* topic_model.get_topic(topic_id) or [], a KeyError giving []
GetTopic(tm, topic_id) == IF topic_id \in DOMAIN tm THEN tm[topic_id] ELSE <<>>

LeafTerms(tm, topic_id, label, topn) ==
    LET scanned == ScanTerms(GetTopic(tm, topic_id), 1, <<>>, topn)
        tokens == FallbackTokens(label)
        kept == IF Len(tokens) <= topn THEN tokens ELSE SubSeq(tokens, 1, topn)
    IN IF scanned # <<>> THEN scanned
       ELSE [r \in 1..Len(kept) |-> Term(kept[r], 0, r)]

LeafTopicIds(sizes, dm) == (DOMAIN sizes \cup DOMAIN dm) \ {OutlierTopic}

\* a leaf sized by its members alone, the summary count ignored
LeafSizeMembersOnly(sizes, dm, topic_id) == MemberCount(dm, topic_id)

\* lines 477-482
LeafSize(sizes, dm, topic_id) ==
    IF topic_id \in DOMAIN sizes
    THEN Max2(sizes[topic_id], MemberCount(dm, topic_id))
    ELSE MemberCount(dm, topic_id)

LeafLabel(labels, topic_id) ==
    IF topic_id \in DOMAIN labels THEN labels[topic_id] ELSE GenericLabel(topic_id)

Node(topic_id, parent_id, level, label, size, terms, docs) ==
    [topic_id |-> topic_id, parent_id |-> parent_id, level |-> level, label |-> label,
     size |-> size, terms |-> terms, docs |-> docs]

LeafNode(topic_id, sizes, labels, dm, tm, topn) ==
    Node(topic_id, None, 0, LeafLabel(labels, topic_id), LeafSize(sizes, dm, topic_id),
         LeafTerms(tm, topic_id, LeafLabel(labels, topic_id), topn),
         IF topic_id \in DOMAIN dm THEN dm[topic_id] ELSE <<>>)

\* the placeholder node of lines 561-570 and 630-639
Stub(topic_id, parent_id, level, label) == Node(topic_id, parent_id, level, label, 0, <<>>, <<>>)

(***************************************************************************)
(* Merge table (lines 523-556). A row is                                   *)
(* [Parent_ID, Child_Left_ID, Child_Right_ID, Distance, Parent_Name].      *)
(***************************************************************************)
RowIds(row) == <<_to_int(row.Parent_ID), _to_int(row.Child_Left_ID), _to_int(row.Child_Right_ID)>>

RowRaises(row) == \E i \in 1..3 : RowIds(row)[i].kind = "raise"

RowResolved(row) == \A i \in 1..3 : RowIds(row)[i].kind = "int"

RowDistance(row) == IF NotNoneOrEmpty(row.Distance) THEN PyFloatTenths(row.Distance) ELSE None

\* a cutoff that prunes nothing
PrunedNever(row, maxd) == FALSE

\* line 545: max_distance is not None and distance is not None and distance > max_distance
Pruned(row, maxd) == maxd # None /\ RowDistance(row) # None /\ RowDistance(row)[1] > maxd[1]

RowRetained(row, maxd) == RowResolved(row) /\ ~Pruned(row, maxd)

AppendIfAbsent(s, c) == IF c \in Range(s) THEN s ELSE Append(s, c)

\* lines 547-552
AddChildren(pch, p, l, r) ==
    IF p \in DOMAIN pch
    THEN [pch EXCEPT ![p] = AppendIfAbsent(AppendIfAbsent(pch[p], l), r)]
    ELSE (p :> <<l, r>>) @@ pch

(***************************************************************************)
(* Roots (lines 577-580). The comprehension runs over a set of ints, which *)
(* CPython iterates by hash slot: for the ids of the model (-1..7, at most *)
(* a handful of them) that is ascending order with -1, of hash -2, last.   *)
(***************************************************************************)
RECURSIVE SetOrder(_)
SetOrder(S) ==
    IF S = {} THEN <<>>
    ELSE IF S \ {OutlierTopic} = {} THEN <<OutlierTopic>>
    ELSE LET m == CHOOSE x \in S \ {OutlierTopic} : \A y \in S \ {OutlierTopic} : x <= y
         IN <<m>> \o SetOrder(S \ {m})

MaxOf(S) == CHOOSE x \in S : \A y \in S : y <= x

Roots(pch, seen) ==
    LET parent_ids == DOMAIN pch
        free == SelectSeq(SetOrder(parent_ids), LAMBDA pid : pid \notin seen)
    IN IF free = <<>> /\ parent_ids # {} THEN <<MaxOf(parent_ids)>> ELSE free

(***************************************************************************)
(* aggregate_terms (lines 582-605).                                        *)
(***************************************************************************)
\* score_map[term_key] += amount, a new key going last
AddScore(acc, key, amount) ==
    IF \E i \in 1..Len(acc) : acc[i].term = key
    THEN [i \in 1..Len(acc) |->
            IF acc[i].term = key THEN [acc[i] EXCEPT !.score = @ + amount] ELSE acc[i]]
    ELSE Append(acc, [term |-> key, score |-> amount])

\* max(int(size_val or 0), 1)
ChildWeight(child) == Max2(child.size, 1)

RECURSIVE AddChildTerms(_, _, _, _)
AddChildTerms(acc, terms, i, weight) ==
    IF i > Len(terms) THEN acc
    ELSE IF Strip(terms[i].term) = <<>> THEN AddChildTerms(acc, terms, i + 1, weight)
    ELSE AddChildTerms(AddScore(acc, Strip(terms[i].term), terms[i].score * weight),
                       terms, i + 1, weight)

RECURSIVE ScoreMap(_, _, _)
ScoreMap(child_ids, i, nd) ==
    IF i = 0 THEN <<>>
    ELSE LET prev == ScoreMap(child_ids, i - 1, nd)
         IN IF child_ids[i] \notin DOMAIN nd THEN prev
            ELSE AddChildTerms(prev, nd[child_ids[i]].terms, 1, ChildWeight(nd[child_ids[i]]))

\* sorted(..., key=score, reverse=True): descending, equal scores in their order
RECURSIVE InsertByScore(_, _)
InsertByScore(s, x) ==
    IF s = <<>> THEN <<x>>
    ELSE IF x.score > Head(s).score THEN <<x>> \o s
    ELSE <<Head(s)>> \o InsertByScore(Tail(s), x)

RECURSIVE SortByScore(_)
SortByScore(s) ==
    IF s = <<>> THEN <<>>
    ELSE InsertByScore(SortByScore(SubSeq(s, 1, Len(s) - 1)), s[Len(s)])

aggregate_terms(child_ids, nd, topn) ==
    LET ordered == SortByScore(ScoreMap(child_ids, Len(child_ids), nd))
        n == IF Len(ordered) <= topn THEN Len(ordered) ELSE topn
    IN [r \in 1..n |-> Term(ordered[r].term, ordered[r].score, r)]

(***************************************************************************)
(* Labels of walked nodes (lines 650-658).                                 *)
(***************************************************************************)
LabelTermCount == 4

\* label.startswith('Topic ')
IsPlaceholder(label) == Len(label) >= 2 /\ label[1] = "Topic" /\ label[2] = " "

RECURSIVE JoinSpace(_)
JoinSpace(ts) ==
    IF ts = <<>> THEN <<>>
    ELSE IF Len(ts) = 1 THEN ts[1]
    ELSE ts[1] \o <<" ">> \o JoinSpace(Tail(ts))

WalkedLabel(node, plabels) ==
    IF node.topic_id \in DOMAIN plabels THEN plabels[node.topic_id]
    ELSE IF node.label = <<>> \/ IsPlaceholder(node.label)
    THEN LET first == IF Len(node.terms) <= LabelTermCount THEN node.terms
                      ELSE SubSeq(node.terms, 1, LabelTermCount)
             label_terms == SelectSeq([i \in 1..Len(first) |-> first[i].term],
                                      LAMBDA t : t # <<>>)
         IN IF label_terms # <<>> THEN JoinSpace(label_terms)
            ELSE GenericLabel(node.topic_id)
    ELSE node.label

(***************************************************************************)
(* The build, step by step.                                                *)
(***************************************************************************)
AnyRaises(scalars) == \E i \in 1..Len(scalars) : _to_int(scalars[i]).kind = "raise"

\* lines 400-414
ParseConfig ==
    /\ pc = "config"
    /\ top_count' = TopCount(top_terms)
    /\ max_distance' = MaxDistance(hierarchy_conf)
    /\ pc' = "members"
    /\ UNCHANGED <<harness, kw, inputs, members, nodes, node_order, merge, walkst, output>>

\* lines 416-442
Membership ==
    /\ pc = "members"
    /\ IF AnyRaises(topic_assignments)
       THEN pc' = "raised" /\ UNCHANGED doc_members
       ELSE pc' = "info" /\ doc_members' = DocMembers(topic_assignments, doc_lookup)
    /\ UNCHANGED <<harness, kw, inputs, config, size_by_topic, label_by_topic, nodes, node_order,
                   merge, walkst, output>>

\* lines 444-468
TopicInfo ==
    /\ pc = "info"
    /\ IF \E i \in 1..Len(topic_info) :
             \/ _to_int(topic_info[i].Topic).kind = "raise"
             \/ RowUsable(topic_info[i]) /\ _to_int(topic_info[i].Count).kind = "raise"
       THEN pc' = "raised" /\ UNCHANGED <<size_by_topic, label_by_topic>>
       ELSE /\ pc' = "leaves"
            /\ size_by_topic' = SizeByTopic(topic_info, doc_members, Len(topic_info))
            /\ label_by_topic' = LabelByTopic(topic_info, Len(topic_info))
    /\ UNCHANGED <<harness, kw, inputs, config, doc_members, nodes, node_order, merge, walkst, output>>

\* lines 470-521
LeafNodes ==
    /\ pc = "leaves"
    /\ nodes' = [t \in LeafTopicIds(size_by_topic, doc_members) |->
                    LeafNode(t, size_by_topic, label_by_topic, doc_members, topic_model, top_count)]
    /\ node_order' = SortedSeq(LeafTopicIds(size_by_topic, doc_members))
    /\ pc' = "merge"
    /\ UNCHANGED <<harness, kw, inputs, config, members, merge, walkst, output>>

\* lines 533-535: an id that _to_int cannot take ends the build with its exception
MergeRowRaise ==
    /\ pc = "merge" /\ row_idx <= Len(hierarchy_df)
    /\ RowRaises(hierarchy_df[row_idx])
    /\ pc' = "raised"
    /\ UNCHANGED <<harness, kw, inputs, config, members, nodes, node_order, merge, walkst, output>>

\* lines 536-537
MergeRowSkip ==
    /\ pc = "merge" /\ row_idx <= Len(hierarchy_df)
    /\ ~RowRaises(hierarchy_df[row_idx]) /\ ~RowResolved(hierarchy_df[row_idx])
    /\ row_idx' = row_idx + 1
    /\ UNCHANGED <<harness, kw, pc, inputs, config, members, nodes, node_order, parent_children,
                   parent_order, parent_labels, children_seen, walkst, output>>

\* lines 538-546
MergeRowPruned ==
    /\ pc = "merge" /\ row_idx <= Len(hierarchy_df)
    /\ RowResolved(hierarchy_df[row_idx]) /\ Pruned(hierarchy_df[row_idx], max_distance)
    /\ row_idx' = row_idx + 1
    /\ UNCHANGED <<harness, kw, pc, inputs, config, members, nodes, node_order, parent_children,
                   parent_order, parent_labels, children_seen, walkst, output>>

\* lines 547-556
MergeRowAdd ==
    /\ pc = "merge" /\ row_idx <= Len(hierarchy_df)
    /\ RowRetained(hierarchy_df[row_idx], max_distance)
    /\ LET row == hierarchy_df[row_idx]
           p == RowIds(row)[1].v
           l == RowIds(row)[2].v
           r == RowIds(row)[3].v
       IN /\ parent_children' = AddChildren(parent_children, p, l, r)
          /\ parent_order' = AppendIfAbsent(parent_order, p)
          /\ children_seen' = children_seen \cup {l, r}
          /\ parent_labels' = IF Strip(row.Parent_Name) # <<>>
                              THEN (p :> Strip(row.Parent_Name)) @@ parent_labels
                              ELSE parent_labels
    /\ row_idx' = row_idx + 1
    /\ UNCHANGED <<harness, kw, pc, inputs, config, members, nodes, node_order, walkst, output>>

\* a materialization that leaves the documents of an existing node in place
MaterializedParentKeepingDocs(nd, plabels, p) ==
    IF p \notin DOMAIN nd
    THEN Stub(p, None, 0, IF p \in DOMAIN plabels THEN plabels[p] ELSE GenericLabel(p))
    ELSE [nd[p] EXCEPT !.label = IF p \in DOMAIN plabels THEN plabels[p] ELSE @]

\* lines 558-575: every retained parent gets a node, and loses its documents
MaterializedParent(nd, plabels, p) ==
    IF p \notin DOMAIN nd
    THEN Stub(p, None, 0, IF p \in DOMAIN plabels THEN plabels[p] ELSE GenericLabel(p))
    ELSE [nd[p] EXCEPT !.label = IF p \in DOMAIN plabels THEN plabels[p] ELSE @,
                       !.docs = <<>>]

\* the nodes after a materialization that creates no node
MaterializedIdsLeavesOnly(nd, pch) == DOMAIN nd

\* the nodes after the loop of lines 558-575: the leaves and every retained parent
MaterializedIds(nd, pch) == DOMAIN nd \cup DOMAIN pch

Materialize ==
    /\ pc = "merge" /\ row_idx > Len(hierarchy_df)
    /\ nodes' = [t \in MaterializedIds(nodes, parent_children) |->
                    IF t \in DOMAIN parent_children
                    THEN MaterializedParent(nodes, parent_labels, t)
                    ELSE nodes[t]]
    /\ node_order' = node_order \o SelectSeq(parent_order, LAMBDA p : p \notin DOMAIN nodes)
    /\ pc' = "roots"
    /\ UNCHANGED <<harness, kw, inputs, config, members, merge, walkst, output>>

\* lines 577-580
SelectRoots ==
    /\ pc = "roots"
    /\ roots' = Roots(parent_children, children_seen)
    /\ pc' = "walk"
    /\ UNCHANGED <<harness, kw, inputs, config, members, nodes, node_order, merge, root_idx,
                   visited, stack, expansions, output>>

(***************************************************************************)
(* walk (lines 607-670). The recursion is a stack of frames                *)
(* [node_id, level, ci, total_size, st]: st is "enter" before line 610 and *)
(* "loop" inside the loop of line 628, ci the index of the next child.     *)
(***************************************************************************)
Frame(node_id, level) ==
    [node_id |-> node_id, level |-> level, ci |-> 1, total_size |-> 0, st |-> "enter"]

Top == stack[Len(stack)]

Children(node_id) == IF node_id \in DOMAIN parent_children THEN parent_children[node_id] ELSE <<>>

\* the callee returns size_val: line 643 in the caller, or lines 666 and 670
Returned(size_val) ==
    IF Len(stack) = 1 THEN <<>>
    ELSE LET caller == stack[Len(stack) - 1]
         IN Append(SubSeq(stack, 1, Len(stack) - 2),
                   [caller EXCEPT !.total_size = @ + Max2(size_val, 0), !.ci = @ + 1])

\* lines 662-666
StartRoot ==
    /\ pc = "walk" /\ stack = <<>> /\ roots # <<>> /\ root_idx <= Len(roots)
    /\ LET root_id == roots[root_idx]
       IN IF root_id \in DOMAIN nodes
          THEN /\ nodes' = [nodes EXCEPT ![root_id].parent_id = None]
               /\ stack' = <<Frame(root_id, 0)>>
          ELSE UNCHANGED <<nodes, stack>>
    /\ root_idx' = root_idx + 1
    /\ UNCHANGED <<harness, kw, pc, inputs, config, members, node_order, merge, roots, visited,
                   expansions, output>>

\* lines 667-670
StartAny ==
    /\ pc = "walk" /\ stack = <<>> /\ roots = <<>> /\ root_idx <= Len(node_order)
    /\ stack' = IF node_order[root_idx] \notin visited
                THEN <<Frame(node_order[root_idx], 0)>> ELSE <<>>
    /\ root_idx' = root_idx + 1
    /\ UNCHANGED <<harness, kw, pc, inputs, config, members, nodes, node_order, merge, roots,
                   visited, expansions, output>>

\* a second visit that reports nothing instead of the stored size
MemoSizeDropped(nd, node_id) == 0

\* lines 611-615: what a second visit of a node returns
MemoSize(nd, node_id) == nd[node_id].size

\* lines 610-615
WalkVisited ==
    /\ pc = "walk" /\ stack # <<>> /\ Top.st = "enter"
    /\ Top.node_id \in visited
    /\ stack' = Returned(MemoSize(nodes, Top.node_id))
    /\ UNCHANGED <<harness, kw, pc, inputs, config, members, nodes, node_order, merge, roots,
                   root_idx, visited, expansions, output>>

\* lines 616-625
WalkLeaf ==
    /\ pc = "walk" /\ stack # <<>> /\ Top.st = "enter"
    /\ Top.node_id \notin visited /\ Children(Top.node_id) = <<>>
    /\ visited' = visited \cup {Top.node_id}
    /\ nodes' = [nodes EXCEPT ![Top.node_id].level = Top.level]
    /\ stack' = Returned(nodes[Top.node_id].size)
    /\ UNCHANGED <<harness, kw, pc, inputs, config, members, node_order, merge, roots, root_idx,
                   expansions, output>>

\* lines 616-620 and 627
WalkExpand ==
    /\ pc = "walk" /\ stack # <<>> /\ Top.st = "enter"
    /\ Top.node_id \notin visited /\ Children(Top.node_id) # <<>>
    /\ visited' = visited \cup {Top.node_id}
    /\ nodes' = [nodes EXCEPT ![Top.node_id].level = Top.level]
    /\ stack' = [stack EXCEPT ![Len(stack)].st = "loop"]
    /\ expansions' = Append(expansions, Top.node_id)
    /\ UNCHANGED <<harness, kw, pc, inputs, config, members, node_order, merge, roots, root_idx,
                   output>>

\* lines 629-641: the child gets a node if it has none, and this parent
Attached(nd, child_id, node_id, level) ==
    IF child_id \notin DOMAIN nd
    THEN (child_id :> Stub(child_id, Some(node_id), level + 1, GenericLabel(child_id))) @@ nd
    ELSE [nd EXCEPT ![child_id].parent_id = Some(node_id)]

\* lines 628-642
WalkAttach ==
    /\ pc = "walk" /\ stack # <<>> /\ Top.st = "loop"
    /\ Top.ci <= Len(Children(Top.node_id))
    /\ LET child_id == Children(Top.node_id)[Top.ci]
       IN /\ nodes' = Attached(nodes, child_id, Top.node_id, Top.level)
          /\ node_order' = AppendIfAbsent(node_order, child_id)
          /\ stack' = Append(stack, Frame(child_id, Top.level + 1))
    /\ UNCHANGED <<harness, kw, pc, inputs, config, members, merge, roots, root_idx, visited,
                   expansions, output>>

\* lines 645-658: size, terms and label of a node whose children are done
Finished(nd, node_id, total_size, plabels, topn) ==
    LET sized == IF nd[node_id].docs = <<>>
                 THEN [nd EXCEPT ![node_id].size = total_size] ELSE nd
        termed == IF sized[node_id].terms = <<>>
                  THEN [sized EXCEPT ![node_id].terms = aggregate_terms(Children(node_id), sized, topn)]
                  ELSE sized
    IN [termed EXCEPT ![node_id].label = WalkedLabel(termed[node_id], plabels)]

\* lines 645-660
WalkFinish ==
    /\ pc = "walk" /\ stack # <<>> /\ Top.st = "loop"
    /\ Top.ci > Len(Children(Top.node_id))
    /\ nodes' = Finished(nodes, Top.node_id, Top.total_size, parent_labels, top_count)
    /\ stack' = Returned(nodes'[Top.node_id].size)
    /\ UNCHANGED <<harness, kw, pc, inputs, config, members, node_order, merge, roots, root_idx,
                   visited, expansions, output>>

(***************************************************************************)
(* Output (lines 672-709).                                                 *)
(***************************************************************************)
\* sorted(nodes.values(), key=(level, topic_id))
Before(a, b) == a.level < b.level \/ (a.level = b.level /\ a.topic_id < b.topic_id)

\* the node records in topic-id order, their levels ignored
OrderedNodesById(nd, ids) == [i \in 1..Cardinality(ids) |-> nd[SortedSeq(ids)[i]]]

RECURSIVE OrderedNodes(_, _)
OrderedNodes(nd, ids) ==
    IF ids = {} THEN <<>>
    ELSE LET m == CHOOSE x \in ids : \A y \in ids \ {x} : Before(nd[x], nd[y])
         IN <<nd[m]>> \o OrderedNodes(nd, ids \ {m})

MaxLevel(ordered) ==
    IF ordered = <<>> THEN 0
    ELSE LET i == CHOOSE x \in 1..Len(ordered) : \A y \in 1..Len(ordered) : ordered[y].level <= ordered[x].level
         IN ordered[i].level

Stats(ordered, pch, rts) ==
    [parents_expected |-> Cardinality(DOMAIN pch),
     parents_emitted |-> Cardinality({i \in 1..Len(ordered) : ordered[i].topic_id \in DOMAIN pch}),
     roots |-> Len(rts),
     leaf_count |-> Cardinality({i \in 1..Len(ordered) : ordered[i].docs # <<>>}),
     max_level |-> MaxLevel(ordered),
     has_links |-> \E i \in 1..Len(ordered) : ordered[i].parent_id # None]

Finalize ==
    /\ pc = "walk" /\ stack = <<>>
    /\ root_idx > Len(IF roots # <<>> THEN roots ELSE node_order)
    /\ ordered_nodes' = OrderedNodes(nodes, DOMAIN nodes)
    /\ stats' = Stats(ordered_nodes', parent_children, roots)
    /\ pc' = "done"
    /\ UNCHANGED <<harness, kw, inputs, config, members, nodes, node_order, merge, walkst>>

(***************************************************************************)
(* Inputs. A build starts from one input tuple; the tuples enumerated are  *)
(* the union of families that each vary one input table around a fixed     *)
(* clustering of three documents into the clusters 0 (two documents) and 1.*)
(***************************************************************************)
Idle == [kind |-> "idle", v |-> 0]

InfoRow(topic, count, name) == [Topic |-> topic, Count |-> count, Name |-> name]

MergeRow(p, l, r, distance, name) ==
    [Parent_ID |-> p, Child_Left_ID |-> l, Child_Right_ID |-> r, Distance |-> distance,
     Parent_Name |-> name]

Entry(term, score) == [wf |-> TRUE, term |-> term, score |-> score]
Malformed == [wf |-> FALSE, term |-> <<>>, score |-> None]

PlainRow(p, l, r) == MergeRow(IntV(p), IntV(l), IntV(r), NoneV, <<>>)

BaseDocs == <<1, 2, 3>>
BaseTopics == <<IntV(0), IntV(0), IntV(1)>>
BaseModel == (0 :> <<Entry(<<"a">>, Some(500)), Entry(<<"b">>, Some(300))>>)
             @@ (1 :> <<Entry(<<"b">>, Some(400))>>)
BaseTables == {<<>>, <<PlainRow(2, 0, 1)>>, <<PlainRow(1, 0, 0)>>}

\* merge tables over the clusters 0, 1 and two further ids: trees, shared children,
\* a leaf reachable along two paths, cycles, a node under itself, a row naming one
\* child twice
GraphRows == {PlainRow(p, l, r) : p \in {1, 2}, l \in {0, 1, 2}, r \in {0, 1, 2, 3}}

\* merge tables with distances, under a cutoff of 0.3 or none
DistanceRows ==
    {MergeRow(IntV(pl[1]), IntV(pl[2]), IntV(1), d, <<>>) :
        pl \in {x \in {2, 3} \X {0, 2, 3} : x[1] # x[2]},
        d \in {NoneV, FloatV(3, 10), FloatV(1, 2)}}
Cutoffs == {<<>>, <<FloatV(3, 10)>>}

\* summary tables next to them: none, or one row for id 3, without or with a count
DistanceInfo == {<<>>, <<InfoRow(IntV(3), NoneV, <<>>)>>, <<InfoRow(IntV(3), IntV(1), <<>>)>>}

\* merge tables whose ids are not all plain cluster numbers
RawRows ==
    {MergeRow(p, l, IntV(r), NoneV, <<>>) :
        p \in {IntV(2), IntV(0 - 1), NoneV, InfV(1), TextV(<<"Topic", " ", "3">>)},
        l \in {IntV(0), IntV(0 - 1)}, r \in {1, 4}}

\* assignment sequences, aligned with the document ids or one document short
AssignValues == {NoneV, IntV(0 - 1), IntV(0), IntV(1)}
DocIds == {1, 2}
Alignments ==
    {<<ds, ts>> \in SeqsUpTo(DocIds, MaxDocs) \X SeqsUpTo(AssignValues, MaxDocs) :
        Len(ds) = Len(ts) \/ Len(ds) + 1 = Len(ts)}

\* summary rows
InfoRows ==
    {InfoRow(t, c, n) :
        t \in {IntV(0), IntV(2), IntV(0 - 1), TextV(<<"Topic", " ", "1">>)},
        c \in {NoneV, IntV(1), IntV(3)},
        n \in {<<>>, <<"0", "_", "heart">>}}

\* merge rows {2; 0, 1} without a parent name, with a blank one, with one to strip
ParentNames == {<<>>, <<" ">>, <<"h", " ">>}
LabelRows == {MergeRow(IntV(2), IntV(0), IntV(1), NoneV, n) : n \in ParentNames}

\* summary rows of cluster 0 and of the merged id 2, without or with a count; the names:
\* none, an upstream name, a name that begins like the generic label
LabelInfo ==
    {InfoRow(IntV(t), c, n) :
        t \in {0, 2}, c \in {NoneV, IntV(1)},
        n \in {<<>>, <<"0", "_", "heart">>, <<"Topic", " ", "x", "_", "y">>}}

\* upstream term-weight lists of cluster 0, and the configured top-N
TermEntries ==
    {Entry(t, sc) : t \in {<<"a">>, <<"b">>, <<" ">>}, sc \in {Some(100), Some(300), None}}
    \cup {Malformed}
TopTerms == {IntV(1), IntV(0), TextV(<<"x">>)}

Start(tt, hc, docs, topics, info, hier, tm) ==
    /\ arg = NoneV /\ ret = Idle /\ KwIdle
    /\ pc = "config"
    /\ top_terms = tt /\ hierarchy_conf = hc
    /\ doc_lookup = docs /\ topic_assignments = topics
    /\ topic_info = info /\ hierarchy_df = hier /\ topic_model = tm
    /\ top_count = DefaultTopN /\ max_distance = None
    /\ doc_members = <<>> /\ size_by_topic = <<>> /\ label_by_topic = <<>>
    /\ nodes = <<>> /\ node_order = <<>>
    /\ row_idx = 1 /\ parent_children = <<>> /\ parent_order = <<>>
    /\ parent_labels = <<>> /\ children_seen = {}
    /\ roots = <<>> /\ root_idx = 1 /\ visited = {} /\ stack = <<>> /\ expansions = <<>>
    /\ ordered_nodes = <<>>
    /\ stats = Stats(<<>>, <<>>, <<>>)

InitGraph ==
    \E hier \in SeqsUpTo(GraphRows, MaxRows) :
        Start(IntV(DefaultTopN), <<>>, BaseDocs, BaseTopics, <<>>, hier, BaseModel)

InitDistance ==
    \E hier \in SeqsUpTo(DistanceRows, MaxRows), hc \in Cutoffs, info \in DistanceInfo :
        Start(IntV(DefaultTopN), hc, BaseDocs, BaseTopics, info, hier, BaseModel)

InitRaw ==
    \E hier \in SeqsUpTo(RawRows, MaxRows) :
        Start(IntV(DefaultTopN), <<>>, BaseDocs, BaseTopics, <<>>, hier, BaseModel)

InitMembers ==
    \E al \in Alignments, hier \in BaseTables :
        Start(IntV(DefaultTopN), <<>>, al[1], al[2], <<>>, hier, <<>>)

InitInfo ==
    \E info \in SeqsUpTo(InfoRows, MaxInfo), hier \in BaseTables :
        Start(IntV(DefaultTopN), <<>>, BaseDocs, BaseTopics, info, hier, <<>>)

InitTerms ==
    \E list \in SeqsUpTo(TermEntries, MaxTerms), tt \in TopTerms, hier \in BaseTables :
        Start(tt, <<>>, BaseDocs, BaseTopics, <<>>, hier, (0 :> list) @@ BaseModel)

InitLabels ==
    \E info \in SeqsUpTo(LabelInfo, MaxInfo), hier \in SeqsUpTo(LabelRows, MaxRows),
       tm \in {<<>>, BaseModel} :
        Start(IntV(DefaultTopN), <<>>, BaseDocs, BaseTopics, info, hier, tm)

Init ==
    \/ InitGraph \/ InitDistance \/ InitRaw \/ InitMembers \/ InitInfo \/ InitTerms
    \/ InitLabels

Next ==
    \/ ParseConfig \/ Membership \/ TopicInfo \/ LeafNodes
    \/ MergeRowRaise \/ MergeRowSkip \/ MergeRowPruned \/ MergeRowAdd
    \/ Materialize \/ SelectRoots
    \/ StartRoot \/ StartAny
    \/ WalkVisited \/ WalkLeaf \/ WalkExpand \/ WalkAttach \/ WalkFinish
    \/ Finalize

Spec == Init /\ [][Next]_vars

(***************************************************************************)
(* _to_int on its own: one call on one scalar.                             *)
(***************************************************************************)
TextChars == {"-", "0", "7", "a", " "}

Scalars ==
    {NoneV, NanV, InfV(1), InfV(0 - 1)}
    \cup {IntV(n) : n \in (0 - MaxNum)..MaxNum}
    \cup {FloatV(n, 2) : n \in (0 - MaxNum)..MaxNum}
    \cup {TextV(t) : t \in SeqsUpTo(TextChars, MaxTextLen)}

InitToInt ==
    /\ arg \in Scalars /\ ret = Idle /\ KwIdle
    /\ pc = "toint"
    /\ top_terms = IntV(DefaultTopN) /\ hierarchy_conf = <<>>
    /\ doc_lookup = <<>> /\ topic_assignments = <<>>
    /\ topic_info = <<>> /\ hierarchy_df = <<>> /\ topic_model = <<>>
    /\ top_count = DefaultTopN /\ max_distance = None
    /\ doc_members = <<>> /\ size_by_topic = <<>> /\ label_by_topic = <<>>
    /\ nodes = <<>> /\ node_order = <<>>
    /\ row_idx = 1 /\ parent_children = <<>> /\ parent_order = <<>>
    /\ parent_labels = <<>> /\ children_seen = {}
    /\ roots = <<>> /\ root_idx = 1 /\ visited = {} /\ stack = <<>> /\ expansions = <<>>
    /\ ordered_nodes = <<>>
    /\ stats = Stats(<<>>, <<>>, <<>>)

\* lines 43-68
ToIntCall ==
    /\ pc = "toint" /\ ret = Idle
    /\ ret' = _to_int(arg)
    /\ UNCHANGED <<arg, kw, pc, inputs, config, members, nodes, node_order, merge, walkst, output>>

NextToInt == ToIntCall

SpecToInt == InitToInt /\ [][NextToInt]_vars

(***************************************************************************)
(* tests/kw_extractor/extract.py. A string is a sequence of characters, each *)
(* a one-character string; the characters outside ASCII are named: "alpha" *)
(* is U+03B1, "endash" U+2013, "emdash" U+2014. A score is an integer       *)
(* number of tenths (every constant of the scoring is a multiple of 0.1).  *)
(***************************************************************************)
UpperLetters ==
    <<"A", "B", "C", "D", "E", "F", "G", "H", "I", "J", "K", "L", "M",
      "N", "O", "P", "Q", "R", "S", "T", "U", "V", "W", "X", "Y", "Z">>

LowerLetters ==
    <<"a", "b", "c", "d", "e", "f", "g", "h", "i", "j", "k", "l", "m",
      "n", "o", "p", "q", "r", "s", "t", "u", "v", "w", "x", "y", "z">>

IsUpperChar(c) == c \in Range(UpperLetters)

\* str.islower() of one character: a lower-case letter, Latin or the Greek alpha
IsLowerChar(c) == c \in Range(LowerLetters) \cup {"alpha"}

LetterIndex(letters, c) == CHOOSE i \in 1..Len(letters) : letters[i] = c

\* str.lower() and str.upper(), character by character ("ALPHA" is U+0391)
LowerChar(c) == IF IsUpperChar(c) THEN LowerLetters[LetterIndex(UpperLetters, c)] ELSE c

UpperChar(c) ==
    IF c \in Range(LowerLetters) THEN UpperLetters[LetterIndex(LowerLetters, c)]
    ELSE IF c = "alpha" THEN "ALPHA" ELSE c

Lower(s) == [i \in 1..Len(s) |-> LowerChar(s[i])]

\* s is not empty and ends with suf
EndsWith(s, suf) ==
    Len(suf) <= Len(s) /\ SubSeq(s, Len(s) - Len(suf) + 1, Len(s)) = suf

STOPWORDS ==
    {<<"a">>, <<"a", "n">>, <<"a", "n", "d">>, <<"a", "r", "e">>, <<"a", "s">>, <<"a", "t">>,
    <<"b", "y">>, <<"f", "o", "r">>, <<"f", "r", "o", "m">>, <<"h", "a", "s">>,
    <<"h", "a", "v", "e">>, <<"h", "e">>, <<"h", "e", "r">>, <<"h", "i", "s">>, <<"i">>,
    <<"i", "n">>, <<"i", "s">>, <<"i", "t">>, <<"i", "t", "s">>, <<"o", "f">>, <<"o", "n">>,
    <<"o", "r">>, <<"s", "h", "e">>, <<"t", "h", "a", "t">>, <<"t", "h", "e">>,
    <<"t", "h", "e", "i", "r">>, <<"t", "h", "e", "n">>, <<"t", "h", "e", "r", "e">>,
    <<"t", "h", "e", "s", "e">>, <<"t", "h", "e", "y">>, <<"t", "h", "i", "s">>,
    <<"t", "h", "o", "s", "e">>, <<"t", "o">>, <<"w", "a", "s">>, <<"w", "e", "r", "e">>,
    <<"w", "i", "l", "l">>, <<"w", "i", "t", "h">>, <<"w", "i", "t", "h", "o", "u", "t">>,
    <<"w", "i", "t", "h", "i", "n">>, <<"i", "n", "t", "o">>, <<"o", "v", "e", "r">>,
    <<"u", "n", "d", "e", "r">>, <<"o", "u", "t">>, <<"a", "c", "r", "o", "s", "s">>,
    <<"a", "f", "t", "e", "r">>, <<"b", "e", "f", "o", "r", "e">>, <<"a", "l", "o", "n", "g">>,
    <<"d", "u", "r", "i", "n", "g">>, <<"p", "l", "u", "s">>, <<"m", "i", "n", "u", "s">>,
    <<"p", "e", "r">>, <<"v", "i", "a">>, <<"y", "e", "s">>, <<"n", "o">>, <<"n", "o", "t">>,
    <<"t", "r", "e", "a", "t">>, <<"t", "r", "e", "a", "t", "s">>,
    <<"t", "r", "e", "a", "t", "e", "d">>, <<"t", "r", "e", "a", "t", "i", "n", "g">>,
    <<"t", "y", "p", "e">>, <<"t", "y", "p", "e", "s">>, <<"i", "i">>, <<"i", "i", "i">>,
    <<"i", "v">>, <<"v">>, <<"v", "i">>, <<"v", "i", "i">>, <<"v", "i", "i", "i">>,
    <<"i", "x">>, <<"x">>, <<"x", "i">>, <<"x", "i", "i">>, <<"o", "n", "e">>,
    <<"t", "w", "o">>, <<"t", "h", "r", "e", "e">>, <<"f", "o", "u", "r">>,
    <<"f", "i", "v", "e">>, <<"s", "i", "x">>, <<"s", "e", "v", "e", "n">>,
    <<"e", "i", "g", "h", "t">>, <<"n", "i", "n", "e">>, <<"t", "e", "n">>}

RomanLetters == {"I", "V", "X", "L", "C", "D", "M"}

is_roman(token) ==
    /\ token # <<>> /\ Len(token) <= 6
    /\ \A i \in 1..Len(token) : UpperChar(token[i]) \in RomanLetters

\* the dash characters of the model that normalize_hyphens turns into "-"
Hyphens == {"endash", "emdash"}

normalize_hyphens(s) == [i \in 1..Len(s) |-> IF s[i] \in Hyphens THEN "-" ELSE s[i]]

\* str.isalnum() of one character
is_word_char(c) == IsUpperChar(c) \/ IsLowerChar(c) \/ c \in Digits

\* the loop of tokenize from position i on, buf the token under construction
RECURSIVE TokenizeFrom(_, _, _, _)
TokenizeFrom(s, i, buf, acc) ==
    IF i > Len(s) THEN (IF buf # <<>> THEN Append(acc, buf) ELSE acc)
    ELSE IF is_word_char(s[i]) THEN TokenizeFrom(s, i + 1, Append(buf, s[i]), acc)
    ELSE IF /\ s[i] = "-" /\ i > 1 /\ i < Len(s)
            /\ is_word_char(s[i - 1]) /\ is_word_char(s[i + 1])
         THEN TokenizeFrom(s, i + 1, Append(buf, s[i]), acc)
    ELSE TokenizeFrom(s, i + 1, <<>>, IF buf # <<>> THEN Append(acc, buf) ELSE acc)

tokenize(txt) == TokenizeFrom(normalize_hyphens(txt), 1, <<>>, <<>>)

NOUN_SUFFIXES ==
    {<<"i", "t", "i", "s">>, <<"e", "m", "i", "a">>, <<"o", "s", "i", "s">>, <<"o", "m", "a">>,
    <<"p", "a", "t", "h", "y">>, <<"a", "l", "g", "i", "a">>, <<"u", "r", "i", "a">>,
    <<"p", "l", "a", "s", "t", "y">>, <<"s", "c", "o", "p", "y">>,
    <<"g", "r", "a", "p", "h", "y">>, <<"e", "c", "t", "o", "m", "y">>,
    <<"o", "t", "o", "m", "y">>, <<"o", "s", "t", "o", "m", "y">>, <<"o", "l", "o", "g", "y">>,
    <<"l", "o", "g", "y">>, <<"g", "e", "n">>, <<"g", "e", "n", "i", "c">>, <<"a", "s", "e">>,
    <<"o", "s", "e">>, <<"i", "n">>, <<"i", "d", "e">>, <<"o", "n", "e">>,
    <<"o", "l", "o", "l">>, <<"p", "r", "i", "l">>, <<"s", "a", "r", "t", "a", "n">>,
    <<"a", "z", "o", "l", "e">>, <<"c", "a", "i", "n", "e">>, <<"d", "o", "p", "a">>,
    <<"m", "y", "c", "i", "n">>, <<"c", "y", "c", "l", "i", "n", "e">>,
    <<"c", "i", "l", "l", "i", "n">>, <<"m", "a", "b">>, <<"i", "a">>, <<"s", "i", "a">>}

ADJ_SUFFIXES == {<<"i", "c">>, <<"a", "l">>, <<"o", "i", "d">>}

\* str.split(sep): the parts between the separators, empty ones kept
RECURSIVE SplitOn(_, _, _, _)
SplitOn(s, sep, i, cur) ==
    IF i > Len(s) THEN <<cur>>
    ELSE IF s[i] = sep THEN <<cur>> \o SplitOn(s, sep, i + 1, <<>>)
    ELSE SplitOn(s, sep, i + 1, Append(cur, s[i]))

\* str.split(): the words between runs of blanks
Words(s) == SelectSeq(SplitOn(s, " ", 1, <<>>), LAMBDA w : w # <<>>)

is_med_noun(token) ==
    LET t == Lower(token)
        parts == SplitOn(t, "-", 1, <<>>)
    IN \/ /\ "-" \in Range(t)
          /\ \/ EndsWith(t, <<"a", "s", "e">>)
             \/ EndsWith(t, <<"g", "e", "n">>)
             \/ \E k \in 1..Len(parts) : EndsWith(parts[k], <<"a", "s", "e">>)
       \/ \E suf \in NOUN_SUFFIXES :
             EndsWith(t, suf) /\ Len(t) >= Max2(4, Len(suf) + 1)

is_adj_like(token) ==
    \E suf \in ADJ_SUFFIXES : EndsWith(Lower(token), suf) /\ Len(token) >= 4

\* t[:1].isupper() and t[1:].islower()
IsProperCase(t) ==
    /\ t # <<>> /\ IsUpperChar(t[1])
    /\ \E i \in 2..Len(t) : IsLowerChar(t[i])
    /\ \A i \in 2..Len(t) : ~IsUpperChar(t[i])

\* the scores of the unigram rules, in tenths
HyphenBoost == 20
NounBoost == 20
ProperCaseBoost == 18
LengthBoost == 4
VerbPenalty == 6
Rejected == 0 - 10

score_unigram(tok) ==
    LET tl == Lower(tok)
    IN IF tl \in STOPWORDS \/ is_roman(tok) THEN Rejected
       ELSE (IF "-" \in Range(tok) THEN HyphenBoost ELSE 0)
            + (IF is_med_noun(tok) THEN NounBoost ELSE 0)
            + (IF IsProperCase(tok) /\ Len(tok) >= 7 THEN ProperCaseBoost ELSE 0)
            + (IF Len(tok) >= 8 THEN LengthBoost ELSE 0)
            - (IF \/ EndsWith(tl, <<"i", "n", "g">>) \/ EndsWith(tl, <<"e", "d">>)
                  \/ EndsWith(tl, <<"s">>)
               THEN VerbPenalty ELSE 0)

\* the scores of the bigram rules, in tenths
PhraseBase == 22
AdjNounBoost == 22
FirstLongBoost == 2
SecondLongBoost == 4

score_bigram(t1, t2) ==
    IF Lower(t1) \in STOPWORDS \/ Lower(t2) \in STOPWORDS THEN Rejected
    ELSE IF is_roman(t1) \/ is_roman(t2) THEN Rejected
    ELSE PhraseBase
         + (IF is_adj_like(t1) /\ is_med_noun(t2) THEN AdjNounBoost ELSE 0)
         + (IF Len(t1) >= 6 THEN FirstLongBoost ELSE 0)
         + (IF Len(t2) >= 6 THEN SecondLongBoost ELSE 0)

\* the thresholds of extract_keywords, in tenths
UnigramThreshold == 22
PhraseThreshold == 30

Scored(term, score) == [term |-> term, score |-> score]

\* f"{t1} {t2}"
Phrase(t1, t2) == t1 \o <<" ">> \o t2

\* lines 135-139
UniScores(toks) ==
    LET all == [i \in 1..Len(toks) |-> Scored(toks[i], score_unigram(toks[i]))]
    IN SelectSeq(all, LAMBDA c : c.score >= UnigramThreshold)

\* lines 141-146
BiScores(toks) ==
    LET all == [i \in 1..(Len(toks) - 1) |->
                   Scored(Phrase(toks[i], toks[i + 1]), score_bigram(toks[i], toks[i + 1]))]
    IN SelectSeq(all, LAMBDA c : c.score >= PhraseThreshold)

\* lines 150-160: the lower-cased words of the kept phrases
PhraseTokens(bis) == UNION {{Lower(w) : w \in Range(Words(bis[i].term))} : i \in 1..Len(bis)}

\* line 161
FilteredUni(unis, bis) == SelectSeq(unis, LAMBDA c : Lower(c.term) \notin PhraseTokens(bis))

\* lines 149 and 164-165
Merged(unis, bis) == SortByScore(SortByScore(bis) \o FilteredUni(unis, bis))

\* line 133
KwTokenize ==
    /\ pc = "kw_tokenize"
    /\ kw_tokens' = tokenize(kw_text)
    /\ pc' = "kw_candidates"
    /\ UNCHANGED <<harness, kw_text, top_k, uni_scores, bi_scores, merged, merged_idx, seen_keys,
                   out, inputs, config, members, nodes, node_order, merge, walkst, output>>

\* lines 135-146
KwCandidates ==
    /\ pc = "kw_candidates"
    /\ uni_scores' = UniScores(kw_tokens)
    /\ bi_scores' = BiScores(kw_tokens)
    /\ pc' = "kw_merge"
    /\ UNCHANGED <<harness, kw_text, top_k, kw_tokens, merged, merged_idx, seen_keys, out,
                   inputs, config, members, nodes, node_order, merge, walkst, output>>

\* lines 148-165
KwMerge ==
    /\ pc = "kw_merge"
    /\ bi_scores' = SortByScore(bi_scores)
    /\ merged' = Merged(uni_scores, bi_scores)
    /\ pc' = "kw_select"
    /\ UNCHANGED <<harness, kw_text, top_k, kw_tokens, uni_scores, merged_idx, seen_keys, out,
                   inputs, config, members, nodes, node_order, merge, walkst, output>>

\* lines 170-176: one turn of the loop over merged
KwSelect ==
    /\ pc = "kw_select" /\ merged_idx <= Len(merged)
    /\ LET term == merged[merged_idx].term
           key == Lower(term)
       IN /\ seen_keys' = seen_keys \cup {key}
          /\ out' = IF key \notin seen_keys THEN Append(out, term) ELSE out
    /\ merged_idx' = merged_idx + 1
    /\ pc' = IF Len(out') >= top_k THEN "kw_done" ELSE "kw_select"
    /\ UNCHANGED <<harness, kw_text, top_k, kw_tokens, uni_scores, bi_scores, merged,
                   inputs, config, members, nodes, node_order, merge, walkst, output>>

\* line 177, the loop having run out of candidates
KwReturn ==
    /\ pc = "kw_select" /\ merged_idx > Len(merged)
    /\ pc' = "kw_done"
    /\ UNCHANGED <<harness, kw, inputs, config, members, nodes, node_order, merge, walkst,
                   output>>

\* the note of the module header (lines 4 and 184)
GoalNote ==
    <<"F", "i", "n", "a", "s", "t", "e", "r", "i", "d", "e", " ", "t", "r", "e", "a", "t", "s",
      " ", "a", "n", "d", "r", "o", "g", "e", "n", "e", "t", "i", "c", " ", "a", "l", "o", "p",
      "e", "c", "i", "a", " ", "b", "y", " ", "i", "n", "h", "i", "b", "i", "t", "i", "n", "g",
      " ", "t", "y", "p", "e", "s", " ", "I", "I", " ", "a", "n", "d", " ", "I", "I", "I", " ",
      "5", "alpha", "-", "r", "e", "d", "u", "c", "t", "a", "s", "e", ".">>

\* words of that note, two of them respelled: a capital, a dash for the hyphen
KwWords ==
    {<<"F", "i", "n", "a", "s", "t", "e", "r", "i", "d", "e">>,
     <<"t", "r", "e", "a", "t", "s">>,
     <<"a", "n", "d", "r", "o", "g", "e", "n", "e", "t", "i", "c">>,
     <<"a", "l", "o", "p", "e", "c", "i", "a">>,
     <<"A", "l", "o", "p", "e", "c", "i", "a">>,
     <<"b", "y">>,
     <<"i", "n", "h", "i", "b", "i", "t", "i", "n", "g">>,
     <<"I", "I">>,
     <<"5", "alpha", "-", "r", "e", "d", "u", "c", "t", "a", "s", "e">>,
     <<"5", "alpha", "endash", "r", "e", "d", "u", "c", "t", "a", "s", "e">>}

MaxWords == 2

\* the notes a call is given: the note of the header, and every line of up to MaxWords words
KwTexts == {GoalNote} \cup {JoinSpace(ws) : ws \in SeqsUpTo(KwWords, MaxWords)}

KwTopK == {0, 2, 5}

InitKw ==
    /\ arg = NoneV /\ ret = Idle
    /\ kw_text \in KwTexts /\ top_k \in KwTopK
    /\ kw_tokens = <<>> /\ uni_scores = <<>> /\ bi_scores = <<>>
    /\ merged = <<>> /\ merged_idx = 1 /\ seen_keys = {} /\ out = <<>>
    /\ pc = "kw_tokenize"
    /\ top_terms = IntV(DefaultTopN) /\ hierarchy_conf = <<>>
    /\ doc_lookup = <<>> /\ topic_assignments = <<>>
    /\ topic_info = <<>> /\ hierarchy_df = <<>> /\ topic_model = <<>>
    /\ top_count = DefaultTopN /\ max_distance = None
    /\ doc_members = <<>> /\ size_by_topic = <<>> /\ label_by_topic = <<>>
    /\ nodes = <<>> /\ node_order = <<>>
    /\ row_idx = 1 /\ parent_children = <<>> /\ parent_order = <<>>
    /\ parent_labels = <<>> /\ children_seen = {}
    /\ roots = <<>> /\ root_idx = 1 /\ visited = {} /\ stack = <<>> /\ expansions = <<>>
    /\ ordered_nodes = <<>>
    /\ stats = Stats(<<>>, <<>>, <<>>)

NextKw == KwTokenize \/ KwCandidates \/ KwMerge \/ KwSelect \/ KwReturn

SpecKw == InitKw /\ [][NextKw]_vars

(***************************************************************************)
(* Properties.                                                             *)
(***************************************************************************)
Done == pc = "done"

NodeIds == DOMAIN nodes

HasDocs(t) == nodes[t].docs # <<>>

RECURSIVE SumSizes(_)
SumSizes(ids) ==
    IF ids = {} THEN 0
    ELSE LET t == CHOOSE x \in ids : TRUE IN nodes[t].size + SumSizes(ids \ {t})

RECURSIVE SumDocs(_)
SumDocs(ids) ==
    IF ids = {} THEN 0
    ELSE LET t == CHOOSE x \in ids : TRUE IN Len(nodes[t].docs) + SumDocs(ids \ {t})

\* the assignment positions whose normalized cluster id is resolvable and not -1
CountedPositions ==
    {i \in 1..Len(topic_assignments) :
        _to_int(topic_assignments[i]).kind = "int" /\ _to_int(topic_assignments[i]).v # 0 - 1}

\* the count the summary rows report for cluster t: that of the last row naming t with
\* a resolvable count, <<>> when there is none
ReportedCount(t) ==
    LET rows == {i \in 1..Len(topic_info) :
                    /\ _to_int(topic_info[i].Topic) = R_Int(t)
                    /\ _to_int(topic_info[i].Count).kind = "int"}
    IN IF rows = {} THEN None
       ELSE Some(_to_int(topic_info[CHOOSE i \in rows : \A j \in rows : j <= i].Count).v)

ChildSet(p) == Range(parent_children[p])

\* C2 as stated: whatever the merge table, a node with children and no documents has the
\* sum of its children's final sizes as size.
C2_ParentSizeIsChildSum ==
    Done => \A p \in DOMAIN parent_children :
                ~HasDocs(p) => nodes[p].size = SumSizes(ChildSet(p) \cap NodeIds)

Parent(t) == nodes[t].parent_id[1]

\* C3 as stated: a node with a parent_id is one level below the node that parent_id names,
\* and every root (a root of the walk, or a node without parent) has level 0 and no parent_id.
C3_LevelIsParentLevelPlusOne ==
    Done =>
        /\ \A t \in NodeIds : nodes[t].parent_id # None =>
              Parent(t) \in NodeIds /\ nodes[t].level = nodes[Parent(t)].level + 1
        /\ \A t \in NodeIds : (t \in Range(roots) \/ nodes[t].parent_id = None) =>
              nodes[t].level = 0 /\ nodes[t].parent_id = None

\* following parent_id from node t ends at a node without parent within fuel steps
RECURSIVE ChainEnds(_, _)
ChainEnds(t, fuel) ==
    \/ nodes[t].parent_id = None
    \/ fuel > 0 /\ Parent(t) \in NodeIds /\ ChainEnds(Parent(t), fuel - 1)

\* C4 as stated: the output is a forest: the parent_id links of every node end at a node
\* without parent (no node is its own ancestor or parent), and a retained merge parent
\* that is nobody's child has no parent_id.
C4_OutputIsForest ==
    Done =>
        /\ \A t \in NodeIds : ChainEnds(t, Cardinality(NodeIds))
        /\ \A p \in DOMAIN parent_children \ children_seen : nodes[p].parent_id = None

\* C5 as stated: every node has at most top-N terms, in non-increasing score order, with
\* the ranks 1, 2, ..., len(terms).
C5_TermsBoundedSortedRanked ==
    Done => \A t \in NodeIds :
        LET ts == nodes[t].terms
        IN /\ Len(ts) <= top_count
           /\ \A i, j \in 1..Len(ts) : i < j => ts[i].score >= ts[j].score
           /\ \A i \in 1..Len(ts) : ts[i].rank = i

\* C6 as stated: the document ids of every node are strictly ascending, so without a
\* duplicate, whatever the document-id sequence.
C6_DocsStrictlyAscending ==
    Done => \A t \in NodeIds :
        \A i, j \in 1..Len(nodes[t].docs) : i < j => nodes[t].docs[i] < nodes[t].docs[j]

\* C7 as stated: no two output nodes share a topic_id and none has the outlier id -1.
C7_UniqueIdsNoOutlier ==
    Done =>
        /\ \A i, j \in 1..Len(ordered_nodes) :
              i # j => ordered_nodes[i].topic_id # ordered_nodes[j].topic_id
        /\ \A i \in 1..Len(ordered_nodes) : ordered_nodes[i].topic_id # 0 - 1

\* the positions that assign a document to cluster t
PositionsOf(t) ==
    {i \in CountedPositions : i <= Len(doc_lookup) /\ _to_int(topic_assignments[i]).v = t}

AssignedClusters == {_to_int(topic_assignments[i]).v : i \in {j \in CountedPositions : j <= Len(doc_lookup)}}

SummaryClusters ==
    {_to_int(topic_info[i].Topic).v :
        i \in {j \in 1..Len(topic_info) :
                  _to_int(topic_info[j].Topic).kind = "int" /\ _to_int(topic_info[j].Topic).v # 0 - 1}}

\* C9 as stated: without a merge table there is exactly one node per non-outlier cluster
\* id of the assignments or the summary rows, each at level 0 without parent and holding
\* exactly the documents assigned to it, and the diagnostics report no root, no link and
\* as many leaves as clusters with an assigned document.
C9_FlatBuild ==
    (Done /\ hierarchy_df = <<>>) =>
        /\ NodeIds = AssignedClusters \cup SummaryClusters
        /\ Len(ordered_nodes) = Cardinality(NodeIds)
        /\ \A t \in NodeIds :
              /\ nodes[t].level = 0 /\ nodes[t].parent_id = None
              /\ Len(nodes[t].docs) = Cardinality(PositionsOf(t))
              /\ Range(nodes[t].docs) = {doc_lookup[i] : i \in PositionsOf(t)}
        /\ stats.roots = 0 /\ ~stats.has_links
        /\ stats.leaf_count = Cardinality(AssignedClusters)

\* the rows of the merge table with all three ids resolved, by what they name
ResolvedRows == {i \in 1..Len(hierarchy_df) : RowResolved(hierarchy_df[i])}
RowParent(i) == RowIds(hierarchy_df[i])[1].v
RowChildren(i) == {RowIds(hierarchy_df[i])[2].v, RowIds(hierarchy_df[i])[3].v}

\* the row's distance is strictly greater than the configured maximum
ExceedsCutoff(i) ==
    /\ max_distance # None
    /\ RowDistance(hierarchy_df[i]) # None
    /\ RowDistance(hierarchy_df[i])[1] > max_distance[1]

KeptRows == {i \in ResolvedRows : ~ExceedsCutoff(i)}
CutRows == {i \in ResolvedRows : ExceedsCutoff(i)}

\* every link of the adjacency and of the output comes from a kept row, and every kept
\* row is in the adjacency
LinksFromKeptRows ==
    /\ \A p \in DOMAIN parent_children : \A c \in Range(parent_children[p]) :
          \E i \in KeptRows : RowParent(i) = p /\ c \in RowChildren(i)
    /\ \A i \in KeptRows :
          RowParent(i) \in DOMAIN parent_children
          /\ RowChildren(i) \subseteq Range(parent_children[RowParent(i)])
    /\ \A t \in NodeIds : nodes[t].parent_id # None =>
          \E i \in KeptRows : RowParent(i) = Parent(t) /\ t \in RowChildren(i)

\* p is named as parent by some row, and every row naming it is cut
OnlyCut(p) ==
    /\ \E i \in CutRows : RowParent(i) = p
    /\ \A i \in 1..Len(hierarchy_df) :
          _to_int(hierarchy_df[i].Parent_ID) = R_Int(p) => i \in CutRows

ClusterIds == AssignedClusters \cup SummaryClusters

KeptChildren == UNION {RowChildren(i) : i \in KeptRows}

\* the cluster ids that get a leaf node: those with an assigned document and those of a
\* summary row with a resolvable count
BuiltClusters == AssignedClusters \cup {t \in SummaryClusters : ReportedCount(t) # None}

\* C10 as stated: a row above the configured maximum distance contributes no link; when
\* every row naming parent p is cut and p is no cluster id, no node p is emitted and the
\* children of those rows are emitted without parent at level 0.
C10_CutRowsLeaveRoots ==
    Done =>
        /\ LinksFromKeptRows
        /\ \A p \in {RowParent(i) : i \in CutRows} : (OnlyCut(p) /\ p \notin ClusterIds) =>
              /\ p \notin NodeIds
              /\ \A i \in CutRows : RowParent(i) = p =>
                    \A c \in RowChildren(i) :
                        c \in NodeIds /\ nodes[c].parent_id = None /\ nodes[c].level = 0

\* C10 amended: a row above the configured maximum distance contributes no link; when
\* every row naming parent p is cut, p is no cluster id and no kept row names p as a
\* child, no node p is emitted; a child of such a row that no kept row names as a child
\* is emitted exactly when it is a cluster with an assigned document or a reported count,
\* or a kept parent, and then without parent at level 0.
C10_CutRowsAmended ==
    Done =>
        /\ LinksFromKeptRows
        /\ \A p \in {RowParent(i) : i \in CutRows} : (OnlyCut(p) /\ p \notin ClusterIds) =>
              /\ p \notin KeptChildren => p \notin NodeIds
              /\ \A i \in CutRows : RowParent(i) = p =>
                    \A c \in RowChildren(i) \ KeptChildren :
                        /\ c \in NodeIds <=> c \in BuiltClusters \cup DOMAIN parent_children
                        /\ c \in NodeIds => nodes[c].parent_id = None /\ nodes[c].level = 0

\* a finished build that cut every row of a parent which is no cluster, next to a kept row
C10_Witness ==
    /\ Done /\ KeptRows # {}
    /\ \E p \in {RowParent(i) : i \in CutRows} :
          OnlyCut(p) /\ p \notin ClusterIds /\ p \notin NodeIds

\* C8 as stated: _to_int returns an integer or the unrepresentable sentinel for every
\* scalar and never raises.
C8_ToIntTotal == ret.kind \in {"idle", "int", "none"}

\* the terms of node t before the walk: those of its leaf node, none for a placeholder
PreWalkTerms(t) ==
    IF t \in LeafTopicIds(size_by_topic, doc_members)
    THEN LeafTerms(topic_model, t, LeafLabel(label_by_topic, t), top_count)
    ELSE <<>>

\* the distinct children of p, in first-seen order
RECURSIVE Distinct(_)
Distinct(s) ==
    IF s = <<>> THEN <<>>
    ELSE AppendIfAbsent(Distinct(SubSeq(s, 1, Len(s) - 1)), s[Len(s)])

\* the build of the scenario: the one retained row {parent 2, children 0 and 1}
ScenarioTable ==
    /\ Len(hierarchy_df) = 1 /\ 1 \in KeptRows
    /\ RowIds(hierarchy_df[1]) = <<R_Int(2), R_Int(0), R_Int(1)>>

\* C11 as stated: a merge parent without documents and without terms of its own ends with
\* the size-weighted aggregation of its children's terms (score * max(size, 1) summed per
\* term, descending, top-N, ranked 1..N); and the single retained row {2; 0, 1} makes 2 a
\* root at level 0 with 0 and 1 below it at level 1 and size(2) = size(0) + size(1).
C11_ParentTermsAggregated ==
    Done =>
        /\ \A p \in DOMAIN parent_children :
              (~HasDocs(p) /\ PreWalkTerms(p) = <<>>) =>
                  nodes[p].terms = aggregate_terms(Distinct(parent_children[p]), nodes, top_count)
        /\ ScenarioTable =>
              /\ {0, 1, 2} \subseteq NodeIds
              /\ nodes[2].level = 0 /\ nodes[2].parent_id = None
              /\ nodes[0].parent_id = Some(2) /\ nodes[0].level = 1
              /\ nodes[1].parent_id = Some(2) /\ nodes[1].level = 1
              /\ nodes[2].size = nodes[0].size + nodes[1].size

\* C12: the returned sequence holds every node once, by ascending level and, within a
\* level, by ascending topic id.
C12_OutputOrdered ==
    Done =>
        /\ Len(ordered_nodes) = Cardinality(NodeIds)
        /\ \A i \in 1..Len(ordered_nodes) :
              ordered_nodes[i].topic_id \in NodeIds
              /\ ordered_nodes[i] = nodes[ordered_nodes[i].topic_id]
        /\ \A i \in 1..(Len(ordered_nodes) - 1) :
              LET a == ordered_nodes[i]
                  b == ordered_nodes[i + 1]
              IN a.level < b.level \/ (a.level = b.level /\ a.topic_id <= b.topic_id)

\* a finished build with two nodes on one level and a node of smaller id on a deeper level
C12_Witness ==
    /\ Done
    /\ \E i \in 1..(Len(ordered_nodes) - 1) : ordered_nodes[i].level = ordered_nodes[i + 1].level
    /\ \E t, u \in NodeIds : t < u /\ nodes[t].level > nodes[u].level

\* C13 as stated: for the note of the header and top_k = 5, extract_keywords returns the
\* list ["Finasteride", "androgenetic alopecia", "5alpha-reductase"], in this order.
C13_GoalNoteKeywords ==
    (pc = "kw_done" /\ kw_text = GoalNote /\ top_k = 5) =>
        out = <<<<"F", "i", "n", "a", "s", "t", "e", "r", "i", "d", "e">>,
                <<"a", "n", "d", "r", "o", "g", "e", "n", "e", "t", "i", "c", " ",
                  "a", "l", "o", "p", "e", "c", "i", "a">>,
                <<"5", "alpha", "-", "r", "e", "d", "u", "c", "t", "a", "s", "e">>>>

\* C14 as stated: first-seen wins: once a parent has attached a child, no later parent
\* that names the same child overwrites the child's parent_id.
C14_FirstParentKept ==
    [][\A t \in DOMAIN nodes :
          nodes[t].parent_id # None =>
              t \in DOMAIN nodes' /\ nodes'[t].parent_id = nodes[t].parent_id]_vars

\* the child ids that the kept rows i..n of the merge table name for parent p, row by row
RECURSIVE NamedChildren(_, _)
NamedChildren(p, i) ==
    IF i > Len(hierarchy_df) THEN <<>>
    ELSE (IF i \in KeptRows /\ RowParent(i) = p
          THEN <<RowIds(hierarchy_df[i])[2].v, RowIds(hierarchy_df[i])[3].v>>
          ELSE <<>>) \o NamedChildren(p, i + 1)

\* C15 as stated: once the merge table is parsed, the child list of every parent holds each
\* child id once, in first-seen order, also when a parent's first row names one child twice.
C15_ChildListDeduplicated ==
    pc \in {"roots", "walk", "done"} =>
        \A p \in DOMAIN parent_children :
            parent_children[p] = Distinct(NamedChildren(p, 1))

\* walk is entered for a node that has been visited before
Revisit == pc = "walk" /\ stack # <<>> /\ Top.st = "enter" /\ Top.node_id \in visited

\* the step taken on a revisit: the call returns the stored size to its caller and
\* changes no node, visits nothing and expands nothing
RevisitReturns ==
    Revisit =>
        /\ Len(stack') = Len(stack) - 1
        /\ nodes' = nodes /\ visited' = visited /\ expansions' = expansions
        /\ Len(stack) > 1 =>
              LET caller == stack[Len(stack) - 1]
              IN stack'[Len(stack')] =
                    [caller EXCEPT !.total_size = @ + Max2(nodes[Top.node_id].size, 0),
                                   !.ci = @ + 1]

\* what is left of the walk, as a number that every step of the walk lowers: the calls
\* still to be started from the root loop, the steps of the open calls, and the steps
\* that the first visit of each node not yet visited will take
RootsLeft == Len(IF roots # <<>> THEN roots ELSE node_order) - root_idx + 1

FrameLeft(i) ==
    LET f == stack[i]
        left == Len(Children(f.node_id)) - f.ci + 1
    IN IF f.st = "enter" THEN 1
       ELSE 3 * left + 1 - (IF i < Len(stack) THEN 2 ELSE 0)

RECURSIVE StackLeft(_)
StackLeft(i) == IF i = 0 THEN 0 ELSE FrameLeft(i) + StackLeft(i - 1)

WalkIds == DOMAIN nodes \cup UNION {Range(parent_children[p]) : p \in DOMAIN parent_children}

RECURSIVE FirstVisitsLeft(_)
FirstVisitsLeft(ids) ==
    IF ids = {} THEN 0
    ELSE LET t == CHOOSE x \in ids : TRUE
         IN 3 * Len(Children(t)) + 1 + FirstVisitsLeft(ids \ {t})

WalkLeft == 2 * RootsLeft + StackLeft(Len(stack)) + FirstVisitsLeft(WalkIds \ visited)

\* the innermost open call of walk can take its next step: it is at line 610 or inside
\* the loop of line 628, and the lookups nodes[node_id] of lines 611 and 617 find a node
CallCanStep ==
    (pc = "walk" /\ stack # <<>>) =>
        Top.st \in {"enter", "loop"} /\ Top.node_id \in DOMAIN nodes

\* C16: whatever the merge table (cycles and self-children included), the walk comes to
\* its end (every step of it lowers a non-negative count of what is left, and no call is
\* ever stuck), no node is expanded twice, and a second visit of a node returns its
\* stored size without recursing.
C16_WalkTerminates ==
    /\ [](\A i, j \in 1..Len(expansions) : i # j => expansions[i] # expansions[j])
    /\ [](pc = "walk" => WalkLeft >= 0 /\ CallCanStep)
    /\ [][(pc = "walk" /\ pc' = "walk") => WalkLeft' < WalkLeft]_vars
    /\ [][RevisitReturns]_vars

\* walk is re-entered for a node whose own call is still open: a cycle of the merge table
C16_Witness ==
    /\ Revisit
    /\ \E i \in 1..(Len(stack) - 1) : stack[i].node_id = Top.node_id
    /\ nodes[Top.node_id].size > 0

\* the ids reachable from the ids of S along parent-to-child links, S included
RECURSIVE Closure(_)
Closure(S) ==
    LET more == S \cup UNION {Range(Children(x)) : x \in S}
    IN IF more = S THEN S ELSE Closure(more)

\* the leaves beneath p: the nodes without children that its children lead to
LeavesBeneath(p) == {t \in Closure(Range(Children(p))) : Children(t) = <<>>}

\* C17 as stated: the size of an internal node is the sum of the sizes of the distinct
\* leaves beneath it, a leaf that two paths reach being counted once.
C17_SizeIsDistinctLeafSum ==
    Done => \A p \in DOMAIN parent_children :
                nodes[p].size = SumSizes(LeavesBeneath(p) \cap NodeIds)

\* the label of node p before the walk when no row names it: that of its leaf node, the
\* generic one for a node that exists only as a merge parent
PreWalkLabel(p) ==
    IF p \in LeafTopicIds(size_by_topic, doc_members)
    THEN LeafLabel(label_by_topic, p)
    ELSE GenericLabel(p)

\* the first (up to 4) terms of a node joined by single spaces
JoinedTerms(node) ==
    LET first == IF Len(node.terms) <= LabelTermCount THEN node.terms
                 ELSE SubSeq(node.terms, 1, LabelTermCount)
    IN JoinSpace([i \in 1..Len(first) |-> first[i].term])

\* C18 as stated: a walked node with children carries the parent name of the merge table
\* when there is one; otherwise an empty or generic "Topic <id>" label becomes its first
\* four terms joined by spaces (the generic label when it has no terms), and any other
\* label, a name of the summary table, is left as it is. No output label is empty.
C18_LabelRules ==
    Done =>
        /\ \A p \in DOMAIN parent_children \cap visited :
              IF p \in DOMAIN parent_labels THEN nodes[p].label = parent_labels[p]
              ELSE IF PreWalkLabel(p) \in {<<>>, GenericLabel(p)}
              THEN nodes[p].label = (IF nodes[p].terms = <<>> THEN GenericLabel(p)
                                     ELSE JoinedTerms(nodes[p]))
              ELSE nodes[p].label = PreWalkLabel(p)
        /\ \A t \in NodeIds : nodes[t].label # <<>>

\* C19: the diagnostics of every build report as many parents emitted as expected, and
\* both count the distinct parents of the rows that survived id resolution and the
\* distance cutoff.
C19_ParentsEmittedAsExpected ==
    Done =>
        /\ stats.parents_emitted = stats.parents_expected
        /\ stats.parents_expected = Cardinality({RowParent(i) : i \in KeptRows})

\* a finished build that emitted a parent which is no cluster and was materialized on
\* its own, next to a row that the cutoff removed
C19_Witness ==
    /\ Done /\ stats.parents_emitted >= 1
    /\ \E p \in DOMAIN parent_children : p \notin LeafTopicIds(size_by_topic, doc_members)
    /\ CutRows # {}

\* the assignment positions within the document ids that assign document d to cluster c
PositionsAssigning(c, d) ==
    {i \in CountedPositions :
        i <= Len(doc_lookup) /\ _to_int(topic_assignments[i]).v = c /\ doc_lookup[i] = d}

Occurrences(s, d) == Cardinality({j \in 1..Len(s) : s[j] = d})

\* the docs of node t are the documents of the positions assigned to cluster t, one entry
\* per position
CarriesItsDocuments(t) ==
    \A d \in Range(doc_lookup) \cup Range(nodes[t].docs) :
        Occurrences(nodes[t].docs, d) = Cardinality(PositionsAssigning(t, d))

====
